---------------------------- MODULE Spec2Model ----------------------------
(***************************************************************************)
(* A model of evm.c: a byte-coded virtual machine with one processing      *)
(* unit (struct PU), a 128 byte memory pool, eleven opcodes, console I/O   *)
(* and an image file that carries pc and memory from one run to the next.  *)
(*                                                                         *)
(* C's `unsigned` is 32 bits wide.  TLC's integers stop at 2^31-1, so an   *)
(* unsigned value is kept as a pair <<hi, lo>> of 16 bit limbs and every   *)
(* arithmetic step of the source is done on limbs, modulo 2^32.  Memory    *)
(* cells are unsigned char: plain integers 0..255.                         *)
(***************************************************************************)
EXTENDS Integers, Sequences, FiniteSets, TLC

(***************************************************************************)
(* Bounds of the model.                                                    *)
(***************************************************************************)
\* values available on standard input before end of file
MaxInputs == 3
\* instructions of one process that the model follows
MaxSteps == 20
\* process invocations followed: a run, and runs resumed from a saved image
MaxRuns == 2
\* instructions followed of a process whose standard input is given: the
\* loader loop of the built-in image takes five for every byte it loads
MaxBootSteps == 30

(***************************************************************************)
(* unsigned (32 bit) arithmetic on 16 bit limbs                            *)
(***************************************************************************)
B16 == 256 * 256
B15 == 128 * 256

\* the unsigned value n, for 0 <= n < 2^31
U(n) == <<n \div B16, n % B16>>

\* (unsigned) of a C int: negative values wrap to 2^32 + n
OfInt(n) == IF n >= 0 THEN U(n) ELSE <<B16 - 1 - ((-n - 1) \div B16), B16 - 1 - ((-n - 1) % B16)>>

\* x is less than 2^16, so that x[2] is its value
Small(x) == x[1] = 0

AddU(a, b) ==
  LET lo == a[2] + b[2]
      hi == a[1] + b[1] + (lo \div B16)
  IN  <<hi % B16, lo % B16>>

SubU(a, b) ==
  LET lo == a[2] - b[2]
      hi == a[1] - b[1] - (IF lo < 0 THEN 1 ELSE 0)
  IN  <<(hi + 2 * B16) % B16, (lo + B16) % B16>>

LtU(a, b) == a[1] < b[1] \/ (a[1] = b[1] /\ a[2] < b[2])

\* x + x, modulo 2^32
Twice(x) == AddU(x, x)

\* x >> 1, which is also x / 2
Half(x) == <<x[1] \div 2, (x[1] % 2) * B15 + (x[2] \div 2)>>

\* the conversion to unsigned char of a store into the memory pool
ToByte(x) == x[2] % 256

\* bitwise and of two small naturals (flag masks are bytes)
RECURSIVE BitAnd(_, _)
BitAnd(a, b) ==
  IF a = 0 \/ b = 0 THEN 0
  ELSE (IF a % 2 = 1 /\ b % 2 = 1 THEN 1 ELSE 0) + 2 * BitAnd(a \div 2, b \div 2)

\* the low 16 bits of a & ~f, for a byte mask f
AndNot(a, f) == a - BitAnd(a % 256, f)

(***************************************************************************)
(* enum Ops and the macros of the source                                   *)
(***************************************************************************)
SUS == 0
MOV == 1
ADD == 2
SUB == 3
JIF == 4
JMR == 5
MPC == 6
IN_ == 7
OUT == 8
AT  == 9
ATP == 10

FL_ZERO  == 1
FL_CARRY == 2

IO_CHR == 0
IO_NUM == 1
IO_STR == 2

NREGS == 8
NOPS  == 32
MEM_SIZE == 128
NVARS == 4
VARS == MEM_SIZE - NVARS
GREET_SIZE == 3
GREET == VARS - GREET_SIZE - 1
MAGIC == 8215
HDR_SIZE == 16

\* num_(n) ((n)*2 + 1),  addr_(p) ((p)*2),  tonum(e) ((e)>>1),  isnum(e) ((e)&1)
num_(n)  == AddU(Twice(n), U(1))
addr_(p) == Twice(p)
tonum(e) == Half(e)
isnum(e) == e[2] % 2 = 1

\* the same macros on the bytes of a memory initialiser (values below 128)
NumB(n)  == n * 2 + 1
AddrB(p) == p * 2
RegB(p)  == AddrB(p)

\* isflag(pu, f) (((pu)->fr) & (f)), for a flag register f_r and a byte mask f
isflag(f_r, f) == BitAnd(f_r[2] % 256, f) # 0

\* a setflag that merges: it sets the bit when e and never clears it
setflag_merge(f_r, e, f) ==
  IF e THEN <<f_r[1], f_r[2] - BitAnd(f_r[2] % 256, f) + f>> ELSE f_r

\* setflag(pu, e, f): fr |= f when e, else fr &= ~f
setflag(f_r, e, f) ==
  IF e THEN <<f_r[1], f_r[2] - BitAnd(f_r[2] % 256, f) + f>>
  ELSE <<f_r[1], AndNot(f_r[2], f)>>

setzf(f_r, e) == setflag(f_r, e, FL_ZERO)
setcf(f_r, e) == setflag(f_r, e, FL_CARRY)

(***************************************************************************)
(* The processing unit.  A core is the record of the fields of struct PU   *)
(* that a handler reads and writes, together with what became of the step: *)
(*   fault  "none", "assert" (a failed assert aborts the process) or       *)
(*          "undefined" (an access outside an array: what the build does   *)
(*          from there on is not determined by the source);                *)
(*   ub     the access outside an array that the step made, if any.        *)
(* The handler table op[32] is fixed: op[0..10] are set, op[11..31] null.  *)
(***************************************************************************)

\* a byte of malloc'ed memory that no read has filled yet
Uninit == -1

\* an out-of-array read ends the process (Trap) or yields some word
Trap == <<-1, -1>>
OobWords == {U(0), U(77), <<B16 - 1, B16 - 2>>}
OobOutcomes == OobWords \cup {Trap}

RegIndex(i) == LtU(i, U(16))
InRegs(i)   == RegIndex(i) /\ i[2] < NREGS
InMem(i)    == ~RegIndex(i) /\ Small(i) /\ i[2] < MEM_SIZE

\* which array bound, if any, reading operand expr oversteps
ReadUb(c, expr) ==
  IF isnum(expr) THEN "none"
  ELSE LET i == Half(expr)
       IN  IF RegIndex(i) THEN (IF InRegs(i) THEN "none" ELSE "reg_read")
           ELSE IF ~InMem(i) THEN "mem_read"
           ELSE IF c.pmem[i[2]] = Uninit THEN "uninit_read"
           ELSE "none"

\* obj_read: a number yields itself, an index yields r[index] below 16 and
\* pmem[index] from 16 on; u is what a read outside the arrays yields
obj_read(c, expr, u) ==
  IF isnum(expr) THEN tonum(expr)
  ELSE LET i == Half(expr)
       IN  IF ReadUb(c, expr) # "none" THEN u
           ELSE IF RegIndex(i) THEN c.r[i[2]]
           ELSE U(c.pmem[i[2]])

\* the core after a read of expr: unchanged, but for the trace of an
\* out-of-array read
AfterRead(c, expr, u) ==
  LET k == ReadUb(c, expr)
  IN  IF k = "none" THEN c
      ELSE IF u = Trap THEN [c EXCEPT !.fault = "undefined", !.ub = k]
      ELSE [c EXCEPT !.ub = k]

\* obj_write: assert(!isnum(addr)), then the value of expr is stored in
\* r[index] below 16 and in pmem[index] (as unsigned char) from 16 on
obj_write(c, addr, expr, u) ==
  IF isnum(addr) THEN [c EXCEPT !.fault = "assert"]
  ELSE LET i  == Half(addr)
           v  == obj_read(c, expr, u)
           c1 == AfterRead(c, expr, u)
       IN  IF c1.fault # "none" THEN c1
           ELSE IF RegIndex(i)
             THEN IF InRegs(i) THEN [c1 EXCEPT !.r[i[2]] = v]
                  ELSE [c1 EXCEPT !.fault = "undefined", !.ub = "reg_write"]
           ELSE IF InMem(i) THEN [c1 EXCEPT !.pmem[i[2]] = ToByte(v)]
           ELSE [c1 EXCEPT !.fault = "undefined", !.ub = "mem_write"]

\* pmem[pc] .. pmem[pc+n-1] lie in the pool
InPool(c, n) == Small(c.pc) /\ c.pc[2] + n <= MEM_SIZE

\* ... and hold bytes that load_image has read
CanFetch(c, n) ==
  /\ InPool(c, n)
  /\ \A k \in 0..(n - 1) : c.pmem[c.pc[2] + k] # Uninit

\* the k-th byte after pc, as the unsigned operand the handler holds
Operand(c, k) == U(c.pmem[c.pc[2] + k])

\* an advance that counts one use of pmem[pc++] however many there are
Advance_once(c, n) == [c EXCEPT !.pc = AddU(c.pc, U(IF n > 0 THEN 1 ELSE 0))]

\* pc after n uses of pmem[pc++]
Advance(c, n) == [c EXCEPT !.pc = AddU(c.pc, U(n))]

\* n uses of pmem[pc++] of which one leaves the pool: pc stops behind the
\* first such byte
FetchFault(c, n) ==
  LET ok == CHOOSE k \in 0..n : CanFetch(c, k) /\ (k = n \/ ~CanFetch(c, k + 1))
  IN  [Advance(c, ok + 1) EXCEPT !.fault = "undefined",
                                 !.ub = IF InPool(c, ok + 1) THEN "uninit_fetch" ELSE "fetch"]

(***************************************************************************)
(* The handlers.  Each is given the core as resume_core hands it over, pc  *)
(* already behind the opcode, and u, the outcome of an out-of-array read   *)
(* should the handler make one.                                            *)
(***************************************************************************)
op_SUS(c, u) == c

\* MOV expr, addr
op_MOV(c, u) ==
  IF ~CanFetch(c, 2) THEN FetchFault(c, 2)
  ELSE LET expr == Operand(c, 0)
           addr == Operand(c, 1)
       IN  obj_write(Advance(c, 2), addr, expr, u)

\* an ATP that stores into the register itself, not where it points
op_ATP_direct(c, u) ==
  IF ~CanFetch(c, 2) THEN FetchFault(c, 2)
  ELSE LET expr  == Operand(c, 0)
           ixreg == Operand(c, 1)
           c2    == Advance(c, 2)
       IN  IF isnum(ixreg) THEN [c2 EXCEPT !.fault = "assert"]
           ELSE obj_write(c2, ixreg, expr, u)

\* ATP expr, @ix
op_ATP(c, u) ==
  IF ~CanFetch(c, 2) THEN FetchFault(c, 2)
  ELSE LET expr  == Operand(c, 0)
           ixreg == Operand(c, 1)
           c2    == Advance(c, 2)
           a     == obj_read(c2, ixreg, u)
           c3    == AfterRead(c2, ixreg, u)
       IN  IF isnum(ixreg) THEN [c2 EXCEPT !.fault = "assert"]
           ELSE IF c3.fault # "none" THEN c3
           ELSE obj_write(c3, addr_(a), expr, u)

\* AT @ix, addr
op_AT(c, u) ==
  IF ~CanFetch(c, 2) THEN FetchFault(c, 2)
  ELSE LET ixreg == Operand(c, 0)
           addr  == Operand(c, 1)
           c2    == Advance(c, 2)
           a     == obj_read(c2, ixreg, u)
           c3    == AfterRead(c2, ixreg, u)
       IN  IF isnum(ixreg) \/ isnum(addr) THEN [c2 EXCEPT !.fault = "assert"]
           ELSE IF c3.fault # "none" THEN c3
           ELSE obj_write(c3, addr, addr_(a), u)

\* ADD expr addr
op_ADD(c, u) ==
  IF ~CanFetch(c, 2) THEN FetchFault(c, 2)
  ELSE LET expr == Operand(c, 0)
           addr == Operand(c, 1)
           c2   == Advance(c, 2)
           old  == obj_read(c2, addr, u)
           c3   == AfterRead(c2, addr, u)
           new  == AddU(old, obj_read(c2, expr, u))
           c4   == AfterRead(c3, expr, u)
           c5   == [c4 EXCEPT !.fr = setzf(setcf(c4.fr, LtU(new, old)), new = U(0))]
       IN  IF c3.fault # "none" THEN c3
           ELSE IF c4.fault # "none" THEN c4
           ELSE obj_write(c5, addr, num_(new), u)

\* SUB expr addr
op_SUB(c, u) ==
  IF ~CanFetch(c, 2) THEN FetchFault(c, 2)
  ELSE LET expr == Operand(c, 0)
           addr == Operand(c, 1)
           c2   == Advance(c, 2)
           old  == obj_read(c2, addr, u)
           c3   == AfterRead(c2, addr, u)
           new  == SubU(old, obj_read(c2, expr, u))
           c4   == AfterRead(c3, expr, u)
           c5   == [c4 EXCEPT !.fr = setzf(setcf(c4.fr, LtU(old, new)), new = U(0))]
       IN  IF c3.fault # "none" THEN c3
           ELSE IF c4.fault # "none" THEN c4
           ELSE obj_write(c5, addr, num_(new), u)

\* a JIF that decodes its flag operand like an expr
op_JIF_decoded(c, u) ==
  IF ~CanFetch(c, 2) THEN FetchFault(c, 2)
  ELSE LET flag == obj_read(c, Operand(c, 0), u)[2] % 256
           addr == Operand(c, 1)
           c2   == Advance(c, 2)
           c3   == AfterRead(c2, addr, u)
       IN  IF isflag(c2.fr, flag) THEN c2
           ELSE IF c3.fault # "none" THEN c3
           ELSE [c3 EXCEPT !.pc = obj_read(c2, addr, u)]

\* JIF flag, addr - set PC to addr if flag is false
op_JIF(c, u) ==
  IF ~CanFetch(c, 2) THEN FetchFault(c, 2)
  ELSE LET flag == c.pmem[c.pc[2]]
           addr == Operand(c, 1)
           c2   == Advance(c, 2)
           c3   == AfterRead(c2, addr, u)
       IN  IF isflag(c2.fr, flag) THEN c2
           ELSE IF c3.fault # "none" THEN c3
           ELSE [c3 EXCEPT !.pc = obj_read(c2, addr, u)]

\* JMR reg - jump to address in a register
op_JMR(c, u) ==
  IF ~CanFetch(c, 1) THEN FetchFault(c, 1)
  ELSE LET addr == Operand(c, 0)
           c2   == Advance(c, 1)
           c3   == AfterRead(c2, addr, u)
       IN  IF c3.fault # "none" THEN c3
           ELSE [c3 EXCEPT !.pc = obj_read(c2, addr, u)]

\* MPC reg - save pc contents in a register
op_MPC(c, u) ==
  IF ~CanFetch(c, 1) THEN FetchFault(c, 1)
  ELSE LET addr == Operand(c, 0)
           c2   == Advance(c, 1)
       IN  obj_write(c2, addr, num_(c2.pc), u)

\* getinp: what the read of channel ch returns.  item is what standard
\* input delivers: <<n>>, or <<>> at end of file.  getchar's EOF (-1) is
\* returned as is; scanf("%d") leaves n = 0 when it converts nothing; a
\* channel other than IO_CHR and IO_NUM reads nothing and yields 0
getinp(ch, item) ==
  IF ch = IO_CHR THEN (IF item = <<>> THEN OfInt(-1) ELSE OfInt(item[1]))
  ELSE IF ch = IO_NUM THEN (IF item = <<>> THEN U(0) ELSE OfInt(item[1]))
  ELSE U(0)

\* IN ch, addr
op_IN(c, u, item) ==
  IF ~CanFetch(c, 2) THEN FetchFault(c, 2)
  ELSE LET ch   == c.pmem[c.pc[2]]
           addr == Operand(c, 1)
           in   == getinp(ch, item)
       IN  obj_write(Advance(c, 2), addr, num_(in), u)

\* OUT ch, addr
op_OUT(c, u) ==
  IF ~CanFetch(c, 2) THEN FetchFault(c, 2)
  ELSE LET addr == Operand(c, 1)
       IN  AfterRead(Advance(c, 2), addr, u)

\* putout: what OUT ch, addr hands to the console, or <<>> for a channel
\* that prints nothing
putout(ch, n) ==
  IF ch = IO_CHR THEN <<"chr", n[2] % 256>>
  ELSE IF ch = IO_NUM THEN <<"num", n>>
  ELSE <<>>

(***************************************************************************)
(* The built-in bootstrap image MEM[MEM_SIZE]                              *)
(***************************************************************************)
BootCode ==
  <<IN_, IO_NUM, RegB(1),
    IN_, IO_NUM, RegB(2),
    MOV, NumB(VARS), RegB(3),
    ATP, RegB(1), RegB(3),
    MOV, RegB(1), RegB(7),
    MPC, RegB(4),
    IN_, IO_NUM, RegB(5),
    ATP, RegB(5), RegB(7),
    ADD, NumB(1), RegB(7),
    SUB, NumB(1), RegB(2),
    JIF, FL_ZERO, RegB(4),
    MPC, AddrB(GREET),
    MOV, NumB(GREET + 1), RegB(7),
    IN_, IO_NUM, RegB(2),
    IN_, IO_NUM, RegB(6),
    MOV, NumB(48), RegB(3),
    JMR, AddrB(VARS),
    SUS,
    JMR, AddrB(GREET)>>

\* a pool holding code from address base on (cut at the end of the pool)
\* and zero elsewhere
Pool(base, code) ==
  [i \in 0..(MEM_SIZE - 1) |->
     IF i >= base /\ i < base + Len(code) THEN code[i - base + 1] ELSE 0]

MEM == Pool(0, BootCode)

(***************************************************************************)
(* Image files.  A file is a record                                        *)
(*   kind     "missing" (open fails), "ioerr" (open succeeds, every read   *)
(*            fails, as for a directory) or "data";                        *)
(*   hlen     the bytes of struct imageheader the file holds (16 if whole) *)
(*   magic, size, memsize, pc   the header's fields;                       *)
(*   payload  the bytes after the header;                                  *)
(*   chunk    the most bytes one read() of the file returns.               *)
(***************************************************************************)
File(hlen, magic, memsize, hpc, payload, chunk) ==
  [kind |-> "data", hlen |-> hlen, magic |-> magic, size |-> U(HDR_SIZE + MEM_SIZE),
   memsize |-> memsize, pc |-> hpc, payload |-> payload, chunk |-> chunk]

\* a file that is not data: no file named ("nofile"), or one of the kinds
Special(kind) == [File(0, U(0), U(0), U(0), <<>>, MEM_SIZE) EXCEPT !.kind = kind]
NoFile == Special("nofile")

\* the bytes of a pool, in order
Bytes(mem) == [i \in 1..MEM_SIZE |-> mem[i - 1]]

\* a well-formed image of a pool
Image(hpc, mem) == File(HDR_SIZE, U(MAGIC), U(MEM_SIZE), U(hpc), Bytes(mem), MEM_SIZE)

(***************************************************************************)
(* The programs the model loads: a prologue that fills registers, flags    *)
(* and a memory cell from standard input, then one instruction drawn from  *)
(* every opcode (and some bytes that are no opcode) with operand bytes     *)
(* that decode to numbers, registers, indexes 8..15 and memory cells.      *)
(***************************************************************************)
\* the memory cell the programs use as data, and its index as an operand
DataCell == 100
DataB == AddrB(DataCell)

\* where a program in the middle of the pool starts, and its second
\* operand cell as an operand byte
MidBase == 20
SelfB == AddrB(MidBase + 2)

OpndA == {0, 1, 2, 3, NumB(5), AddrB(8), DataB}
OpndB == {0, 1, 2, AddrB(8), DataB, SelfB}

Instrs ==
     {<<o, a, b>> : o \in {MOV, ADD, SUB, JIF, IN_, OUT, AT, ATP}, a \in OpndA, b \in OpndB}
  \cup {<<o, a>> : o \in {JMR, MPC}, a \in OpndB}
  \cup {<<o>> : o \in {SUS, 11, 31, 32, 255}}

\* r[0] from standard input;  r[1] and the flags from standard input
ProReg  == <<IN_, IO_NUM, RegB(0)>>
ProFlag == <<IN_, IO_NUM, RegB(1), SUB, NumB(1), RegB(1)>>

\* <<start address, prologue>>
Layouts ==
  {<<0, <<>>>>, <<0, ProReg>>, <<0, ProFlag>>,
   <<MidBase, <<>>>>, <<MEM_SIZE - 3, <<>>>>, <<MEM_SIZE - 2, <<>>>>, <<MEM_SIZE - 1, <<>>>>}

\* the pool of a program: the data cell holds 255 unless code covers it
ProgramPool(l, ins) ==
  LET code == l[2] \o ins
      p    == Pool(l[1], code)
  IN  IF DataCell >= l[1] /\ DataCell < l[1] + Len(code) THEN p
      ELSE [p EXCEPT ![DataCell] = 255]

Programs == {Image(l[1], ProgramPool(l, ins)) : l \in Layouts, ins \in Instrs}

\* files load_image must refuse: each differs from a good image in one way
GoodPool == ProgramPool(<<0, <<>>>>, <<MOV, NumB(5), RegB(0)>>)
Refused ==
  { Special("missing"), Special("ioerr"),
    File(8, U(MAGIC), U(MEM_SIZE), U(0), <<>>, MEM_SIZE),
    File(HDR_SIZE, U(MAGIC + 1), U(MEM_SIZE), U(0), Bytes(GoodPool), MEM_SIZE),
    File(HDR_SIZE, U(MAGIC), U(0), U(0), <<>>, MEM_SIZE),
    File(HDR_SIZE, U(MAGIC), U(64), U(0), SubSeq(Bytes(GoodPool), 1, 64), MEM_SIZE),
    File(HDR_SIZE, U(MAGIC), U(2 * MEM_SIZE), U(0), Bytes(GoodPool) \o Bytes(GoodPool), MEM_SIZE),
    File(HDR_SIZE, U(MAGIC), U(MEM_SIZE), U(MEM_SIZE), Bytes(GoodPool), MEM_SIZE),
    File(HDR_SIZE, U(MAGIC), U(MEM_SIZE), U(300), Bytes(GoodPool), MEM_SIZE),
    File(HDR_SIZE, U(MAGIC), U(MEM_SIZE), U(0), SubSeq(Bytes(GoodPool), 1, 100), MEM_SIZE),
    File(HDR_SIZE, U(MAGIC), U(MEM_SIZE), U(0), <<>>, MEM_SIZE) }

\* good images that the file system hands over in pieces
Pieces ==
  { File(HDR_SIZE, U(MAGIC), U(MEM_SIZE), U(0), Bytes(GoodPool), 100),
    File(HDR_SIZE, U(MAGIC), U(MEM_SIZE), U(0), Bytes(GoodPool), 64) }

LoadFiles == {NoFile} \cup Programs \cup Refused \cup Pieces

\* what standard input can deliver to one read
InputInts == {-1, 0, 1, 3, 100, 255}
InputChars == {n \in InputInts : n >= 0}

\* standard input: not given (each read can get any of the values above,
\* MaxInputs of them at most), or given as the sequence of its values
AnyInput == [given |-> FALSE, data |-> <<>>]
Given(seq) == [given |-> TRUE, data |-> seq]

(***************************************************************************)
(* State                                                                   *)
(***************************************************************************)
VARIABLES
  pc, fr, r, pmem, pmemsize,   \* struct PU Core1
  status,     \* where main is: "start", "running", "halted", then "exited",
              \* "aborted" (failed assert) or "undefined"
  exitcode,   \* the process's exit status, -1 while it runs
  report,     \* the diagnostic printed last ("none" if none)
  ub,         \* the out-of-array access made last ("none" if none)
  loadfile,   \* the file argv names to load (NoFile: the built-in image)
  savefile,   \* the file save_image has written (NoFile: none)
  saved,      \* pc and pool of the core when save_image was called
  nin,        \* reads of standard input that got a value
  stdin,      \* what standard input holds (AnyInput, or the values given)
  out,        \* what OUT printed last
  steps,      \* instructions this process has executed
  run         \* process invocations so far

vars == <<pc, fr, r, pmem, pmemsize, status, exitcode, report, ub, loadfile,
          savefile, saved, nin, stdin, out, steps, run>>

\* exit status of a process killed by abort()
SIGABRT_STATUS == 134

\* the pool pointer before load_image sets it, and a fresh malloc'ed pool
NullMem == [i \in 0..(MEM_SIZE - 1) |-> Uninit]
NoSnapshot == [pc |-> U(0), pmem |-> NullMem]

\* a process starts with Core1 as the static initialiser leaves it
FreshCore ==
  /\ pc = U(0) /\ fr = U(0) /\ r = [i \in 0..(NREGS - 1) |-> U(0)]
  /\ pmem = NullMem /\ pmemsize = U(0)
  /\ status = "start" /\ exitcode = -1 /\ report = "none" /\ ub = "none"
  /\ nin = 0 /\ out = <<>> /\ steps = 0

Init ==
  /\ FreshCore
  /\ loadfile \in LoadFiles
  /\ stdin = AnyInput
  /\ savefile = NoFile
  /\ saved = NoSnapshot
  /\ run = 1

(***************************************************************************)
(* load_image                                                              *)
(***************************************************************************)
\* the read loop: read(f, pcore->pmem, len) until len bytes have come.  Each
\* read stores at the start of the pool what it got, from file offset pos
RECURSIVE ReadLoop(_, _, _, _)
ReadLoop(mem, f, pos, len) ==
  IF len <= 0 THEN [ok |-> TRUE, mem |-> mem]
  ELSE LET avail == Len(f.payload) - pos
           want  == IF len < f.chunk THEN len ELSE f.chunk
           n     == IF f.kind = "ioerr" THEN -1 ELSE IF want < avail THEN want ELSE avail
       IN  IF n <= 0 THEN [ok |-> FALSE, mem |-> mem]
           ELSE ReadLoop([i \in 0..(MEM_SIZE - 1) |->
                            IF i < n THEN f.payload[pos + i + 1] ELSE mem[i]],
                         f, pos + n, len - n)

\* what read(f, &h, sizeof(h)) returns
HeaderRead(f) == IF f.kind = "ioerr" THEN -1 ELSE f.hlen

\* read(...) < sizeof(h): the int is converted to size_t, so -1 is not less
ShortHeader(n) == n >= 0 /\ n < HDR_SIZE

\* struct imageheader h left unset by a failed read: some stack content
HeaderGarbage ==
  { [magic |-> U(0), memsize |-> U(0), pc |-> U(0)],
    [magic |-> U(MAGIC), memsize |-> U(0), pc |-> U(0)],
    [magic |-> U(MAGIC), memsize |-> U(MEM_SIZE), pc |-> U(5)] }

\* load_image's result: the fields it sets in the core, the diagnostic and
\* "ok", "fail" (return -1) or "assert"
load_image(f, h, mallocOk) ==
  LET core0 == [pc |-> pc, pmem |-> pmem, pmemsize |-> pmemsize]
      Res(c, rep, res) == [pc |-> c.pc, pmem |-> c.pmem, pmemsize |-> c.pmemsize,
                           report |-> rep, result |-> res]
      core1 == [pc |-> h.pc, pmem |-> NullMem, pmemsize |-> h.memsize]
      rd    == ReadLoop(NullMem, f, 0, h.memsize[2])
  IN  IF f.kind = "nofile"
        THEN Res([pc |-> U(0), pmem |-> MEM, pmemsize |-> U(MEM_SIZE)], "none", "ok")
      ELSE IF f.kind = "missing" THEN Res(core0, "load:open", "fail")
      ELSE IF ShortHeader(HeaderRead(f)) THEN Res(core0, "load:header", "fail")
      ELSE IF h.magic # U(MAGIC) THEN Res(core0, "load:magic", "fail")
      ELSE IF ~LtU(U(0), h.memsize) THEN Res(core0, "none", "assert")
      ELSE IF h.memsize # U(MEM_SIZE) THEN Res(core0, "load:memsize", "fail")
      ELSE IF ~mallocOk THEN Res([core0 EXCEPT !.pmem = NullMem], "load:nomem", "fail")
      ELSE IF ~LtU(h.pc, h.memsize) THEN Res(core1, "load:pc", "fail")
      ELSE IF ~rd.ok THEN Res([core1 EXCEPT !.pmem = rd.mem], "load:payload", "fail")
      ELSE Res([core1 EXCEPT !.pmem = rd.mem], "none", "ok")

\* main: if (load_image(&Core1, loadfile) < 0) exit(1);
Load ==
  /\ status = "start"
  /\ \E mallocOk \in BOOLEAN :
     \E h \in (IF loadfile.kind = "ioerr" THEN HeaderGarbage
               ELSE {[magic |-> loadfile.magic, memsize |-> loadfile.memsize, pc |-> loadfile.pc]}) :
       LET res == load_image(loadfile, h, mallocOk)
       IN  /\ pc' = res.pc /\ pmem' = res.pmem /\ pmemsize' = res.pmemsize
           /\ report' = res.report
           /\ status' = CASE res.result = "ok" -> "running"
                          [] res.result = "fail" -> "exited"
                          [] OTHER -> "aborted"
           /\ exitcode' = CASE res.result = "ok" -> -1
                            [] res.result = "fail" -> 1
                            [] OTHER -> SIGABRT_STATUS
  /\ UNCHANGED <<fr, r, ub, loadfile, savefile, saved, nin, stdin, out, steps, run>>

(***************************************************************************)
(* resume_core: one action per pass of the loop, by what the fetched byte  *)
(* icode = pmem[pc++] selects in the table op[].                           *)
(***************************************************************************)
Core == [pc |-> pc, fr |-> fr, r |-> r, pmem |-> pmem, fault |-> "none", ub |-> "none"]

\* the instructions the model follows a process for
StepLimit == IF stdin.given THEN MaxBootSteps ELSE MaxSteps

Running == status = "running" /\ steps < StepLimit

\* the loop is about to fetch code as icode
Fetches(code) == Running /\ CanFetch(Core, 1) /\ pmem[pc[2]] = code

\* the core the handler is called with
Fetched == Advance(Core, 1)

\* the handler has returned res: a failed assert aborts; otherwise
\* while (icode != SUS) decides whether the loop goes on
Return(res, code) ==
  /\ pc' = res.pc /\ fr' = res.fr /\ r' = res.r /\ pmem' = res.pmem
  /\ ub' = IF res.ub # "none" THEN res.ub ELSE ub
  /\ status' = CASE res.fault = "assert" -> "aborted"
                 [] res.fault = "undefined" -> "undefined"
                 [] code = SUS -> "halted"
                 [] OTHER -> "running"
  /\ exitcode' = IF res.fault = "assert" THEN SIGABRT_STATUS ELSE exitcode
  /\ steps' = steps + 1
  /\ UNCHANGED <<pmemsize, report, loadfile, savefile, saved, run>>

run_SUS == Fetches(SUS) /\ Return(op_SUS(Fetched, Trap), SUS) /\ UNCHANGED <<nin, stdin, out>>
run_MOV == Fetches(MOV) /\ (\E u \in OobOutcomes : Return(op_MOV(Fetched, u), MOV)) /\ UNCHANGED <<nin, stdin, out>>
run_ADD == Fetches(ADD) /\ (\E u \in OobOutcomes : Return(op_ADD(Fetched, u), ADD)) /\ UNCHANGED <<nin, stdin, out>>
run_SUB == Fetches(SUB) /\ (\E u \in OobOutcomes : Return(op_SUB(Fetched, u), SUB)) /\ UNCHANGED <<nin, stdin, out>>
run_JIF == Fetches(JIF) /\ (\E u \in OobOutcomes : Return(op_JIF(Fetched, u), JIF)) /\ UNCHANGED <<nin, stdin, out>>
run_JMR == Fetches(JMR) /\ (\E u \in OobOutcomes : Return(op_JMR(Fetched, u), JMR)) /\ UNCHANGED <<nin, stdin, out>>
run_MPC == Fetches(MPC) /\ (\E u \in OobOutcomes : Return(op_MPC(Fetched, u), MPC)) /\ UNCHANGED <<nin, stdin, out>>
run_AT  == Fetches(AT)  /\ (\E u \in OobOutcomes : Return(op_AT(Fetched, u), AT)) /\ UNCHANGED <<nin, stdin, out>>
run_ATP == Fetches(ATP) /\ (\E u \in OobOutcomes : Return(op_ATP(Fetched, u), ATP)) /\ UNCHANGED <<nin, stdin, out>>

\* what a read of channel ch can be handed: a value while standard input
\* has one, or end of file; a channel that reads nothing is handed nothing
Items(ch) ==
  IF ch \notin {IO_CHR, IO_NUM} THEN {<<>>}
  ELSE IF stdin.given
    THEN (IF nin < Len(stdin.data) THEN {<<stdin.data[nin + 1]>>} ELSE {<<>>})
  ELSE {<<>>} \cup (IF nin >= MaxInputs THEN {}
                    ELSE {<<n>> : n \in (IF ch = IO_CHR THEN InputChars ELSE InputInts)})

\* the channel byte of the IN or OUT being executed (0 if it is cut off)
Channel == IF CanFetch(Fetched, 1) THEN pmem[Fetched.pc[2]] ELSE 0

run_IN ==
  /\ Fetches(IN_)
  /\ \E u \in OobOutcomes : \E item \in (IF CanFetch(Fetched, 2) THEN Items(Channel) ELSE {<<>>}) :
       /\ Return(op_IN(Fetched, u, item), IN_)
       /\ nin' = IF item = <<>> THEN nin ELSE nin + 1
       /\ stdin' = stdin
  /\ out' = out

run_OUT ==
  /\ Fetches(OUT)
  /\ \E u \in OobOutcomes :
       LET res == op_OUT(Fetched, u)
           n   == obj_read(Advance(Fetched, 2), Operand(Fetched, 1), u)
       IN  /\ Return(res, OUT)
           /\ out' = IF res.fault = "none" /\ putout(Channel, n) # <<>>
                     THEN putout(Channel, n) ELSE out
  /\ nin' = nin /\ stdin' = stdin

\* op[icode] is null for 11 <= icode < 32: break
run_none ==
  /\ \E code \in (ATP + 1)..(NOPS - 1) : Fetches(code)
  /\ pc' = Fetched.pc
  /\ status' = "halted"
  /\ steps' = steps + 1
  /\ UNCHANGED <<fr, r, pmem, pmemsize, exitcode, report, ub, loadfile,
                 savefile, saved, nin, stdin, out, run>>

\* icode >= 32: op[icode] is read behind the table.  What lies there is
\* null (break) or is called as a function
run_beyond ==
  /\ \E code \in NOPS..255 : Fetches(code)
  /\ pc' = Fetched.pc
  /\ ub' = "table"
  /\ status' \in {"halted", "undefined"}
  /\ steps' = steps + 1
  /\ UNCHANGED <<fr, r, pmem, pmemsize, exitcode, report, loadfile,
                 savefile, saved, nin, stdin, out, run>>

\* pc is outside the pool (or at a byte no read has filled): pmem[pc] is
\* read all the same
run_wild ==
  /\ Running /\ ~CanFetch(Core, 1)
  /\ pc' = AddU(pc, U(1))
  /\ ub' = IF InPool(Core, 1) THEN "uninit_fetch" ELSE "fetch"
  /\ status' = "undefined"
  /\ steps' = steps + 1
  /\ UNCHANGED <<fr, r, pmem, pmemsize, exitcode, report, loadfile,
                 savefile, saved, nin, stdin, out, run>>

(***************************************************************************)
(* save_image, and the end of main                                         *)
(***************************************************************************)
\* argv's -s: none, a path that does not exist yet, or one that does
SaveArgs == {"none", "new", "exists"}

\* the most bytes one write() takes: all, a part, or none (it fails)
WriteChunks == {MEM_SIZE, 100, 0}

\* the write loop: write(f, pcore->pmem, h.memsize) until len is used up.
\* Each write appends bytes from the start of the pool
RECURSIVE WriteLoop(_, _, _, _, _)
WriteLoop(payload, mem, memsize, len, w) ==
  IF len <= 0 THEN [ok |-> TRUE, payload |-> payload]
  ELSE LET n == IF memsize < w THEN memsize ELSE w
       IN  IF n <= 0 THEN [ok |-> FALSE, payload |-> payload]
           ELSE WriteLoop(payload \o [i \in 1..n |-> mem[i - 1]], mem, memsize, len - n, w)

\* save_image's result: the file it leaves and the diagnostic
save_image(c, arg, w) ==
  LET wr == WriteLoop(<<>>, c.pmem, c.pmemsize[2], c.pmemsize[2], w)
      f  == [File(IF HDR_SIZE < w THEN HDR_SIZE ELSE w, U(MAGIC), c.pmemsize, c.pc,
                  wr.payload, MEM_SIZE)
               EXCEPT !.size = AddU(U(HDR_SIZE), c.pmemsize)]
  IN  IF arg = "none" THEN [file |-> NoFile, report |-> "none"]
      ELSE IF arg = "exists" THEN [file |-> NoFile, report |-> "save:open"]
      ELSE [file |-> f, report |-> IF wr.ok THEN "none" ELSE "save:write"]

\* main: save_image(&Core1, savefile); return 0;
Save ==
  /\ status = "halted"
  /\ \E arg \in SaveArgs : \E w \in WriteChunks :
       LET res == save_image([pc |-> pc, pmem |-> pmem, pmemsize |-> pmemsize], arg, w)
       IN  /\ savefile' = res.file
           /\ report' = res.report
  /\ saved' = [pc |-> pc, pmem |-> pmem]
  /\ status' = "exited"
  /\ exitcode' = 0
  /\ UNCHANGED <<pc, fr, r, pmem, pmemsize, ub, loadfile, nin, stdin, out, steps, run>>

\* the program is started again, to load the file the run before has saved
Resume ==
  /\ status = "exited" /\ exitcode = 0 /\ savefile # NoFile
  /\ run < MaxRuns
  /\ pc' = U(0) /\ fr' = U(0) /\ r' = [i \in 0..(NREGS - 1) |-> U(0)]
  /\ pmem' = NullMem /\ pmemsize' = U(0)
  /\ status' = "start" /\ exitcode' = -1 /\ report' = "none" /\ ub' = "none"
  /\ nin' = 0 /\ out' = <<>> /\ steps' = 0
  /\ stdin' = stdin
  /\ loadfile' = savefile
  /\ savefile' = NoFile
  /\ run' = run + 1
  /\ UNCHANGED saved

Next ==
  \/ Load
  \/ run_SUS \/ run_MOV \/ run_ADD \/ run_SUB \/ run_JIF \/ run_JMR \/ run_MPC
  \/ run_IN \/ run_OUT \/ run_AT \/ run_ATP
  \/ run_none \/ run_beyond \/ run_wild
  \/ Save
  \/ Resume

Spec == Init /\ [][Next]_vars

(***************************************************************************)
(* The specification's reading of an operand byte b (Operand Codec and     *)
(* Resolved-Value Access): odd bytes are Literal(b >> 1), even bytes are   *)
(* Reference(b / 2); references 0..7 are registers, 8..127 memory cells.   *)
(***************************************************************************)
IsLiteral(b) == b % 2 = 1
RefIndex(b) == b \div 2

\* read(state, operand) in the state before the step
SpecRead(b) ==
  IF IsLiteral(b) THEN U(b \div 2)
  ELSE IF RefIndex(b) < NREGS THEN r[RefIndex(b)]
  ELSE U(pmem[RefIndex(b)])

\* a reference the source and the specification resolve alike: a register
\* 0..7 or a memory cell 16..127
PlainRef(b) == ~IsLiteral(b) /\ (RefIndex(b) < NREGS \/ RefIndex(b) >= 16)
Plain(b) == IsLiteral(b) \/ PlainRef(b)

\* a value of one byte
IsByte(x) == Small(x) /\ x[2] <= 255

\* the operand bytes of the instruction at pc
Opnd1 == pmem[pc[2] + 1]
Opnd2 == pmem[pc[2] + 2]

\* the loop is about to execute a whole instruction with opcode code
Executes(code, arity) == Fetches(code) /\ CanFetch(Fetched, arity)

(***************************************************************************)
(* C1.  ADD src,dst with old = read(dst) and delta = read(src) in 0..255,  *)
(* dst a register or a memory cell: after the step dst holds               *)
(* (old + delta) mod 256, CARRY is set iff old + delta >= 256, ZERO is set *)
(* iff the stored result is 0, and pc has advanced by 3.                   *)
(***************************************************************************)
C1_AddContract ==
  [][ (Executes(ADD, 2) /\ Plain(Opnd1) /\ PlainRef(Opnd2)
       /\ IsByte(SpecRead(Opnd1)) /\ IsByte(SpecRead(Opnd2)))
      => LET old   == SpecRead(Opnd2)[2]
             delta == SpecRead(Opnd1)[2]
             i     == RefIndex(Opnd2)
             new   == IF i < NREGS THEN r'[i] ELSE U(pmem'[i])
         IN  /\ new = U((old + delta) % 256)
             /\ isflag(fr', FL_CARRY) <=> (old + delta >= 256)
             /\ isflag(fr', FL_ZERO) <=> (new = U(0))
             /\ pc' = AddU(pc, U(3)) ]_vars

(***************************************************************************)
(* C2.  SUB src,dst with old = read(dst) and delta = read(src) in 0..255,  *)
(* dst a register or a memory cell: after the step dst holds               *)
(* (old - delta) mod 256, CARRY is set iff delta > old, and ZERO is set    *)
(* iff the stored result is 0.                                             *)
(***************************************************************************)
C2_SubContract ==
  [][ (Executes(SUB, 2) /\ Plain(Opnd1) /\ PlainRef(Opnd2)
       /\ IsByte(SpecRead(Opnd1)) /\ IsByte(SpecRead(Opnd2)))
      => LET old   == SpecRead(Opnd2)[2]
             delta == SpecRead(Opnd1)[2]
             i     == RefIndex(Opnd2)
             new   == IF i < NREGS THEN r'[i] ELSE U(pmem'[i])
         IN  /\ new = U((old - delta + 256) % 256)
             /\ isflag(fr', FL_CARRY) <=> (delta > old)
             /\ isflag(fr', FL_ZERO) <=> (new = U(0)) ]_vars

(***************************************************************************)
(* C3.  Before every opcode fetch and every operand fetch pc lies in       *)
(* 0..127: the engine never reads pmem[pc] with pc outside the pool.       *)
(* (Stated for the runs in which every reference stayed inside the         *)
(* registers and the pool, so that pc holds a value the program put        *)
(* there.)                                                                 *)
(***************************************************************************)
C3_FetchInPool ==
  ub \in {"none", "fetch"}
  => /\ status = "running" => InPool(Core, 1)
     /\ ub # "fetch"

(***************************************************************************)
(* C4.  A reference with index i reaches registers[i] for i in 0..7 and    *)
(* memory[i] for i in 8..127: no opcode reads or writes a register slot    *)
(* with index >= 8 or a memory cell with index >= 128.                     *)
(***************************************************************************)
C4_ReferencesInBounds == ub \notin {"reg_read", "reg_write", "mem_read", "mem_write"}

(***************************************************************************)
(* C5.  Image round trip: when the loop has halted and the image has been  *)
(* saved, loading that file succeeds, pc and the 128 memory bytes are      *)
(* those at save time, and the registers and flags are zero.               *)
(***************************************************************************)
\* the file holds a header and 128 bytes of payload
WholeImage(f) == f.kind = "data" /\ f.hlen = HDR_SIZE /\ Len(f.payload) = MEM_SIZE

C5_RoundTrip ==
  (run = 2 /\ status # "start" /\ steps = 0 /\ WholeImage(loadfile) /\ report # "load:nomem")
  => /\ status = "running"
     /\ pc = saved.pc /\ pmem = saved.pmem
     /\ fr = U(0) /\ \A i \in 0..(NREGS - 1) : r[i] = U(0)

(***************************************************************************)
(* C6.  Unknown-opcode halt: a fetched byte that is none of the opcodes    *)
(* 0..10 halts the loop; the step changes nothing but pc, which grows by   *)
(* 1, and consults no table slot outside the dispatch table.               *)
(***************************************************************************)
C6_UnknownOpcodeHalts ==
  [][ (Running /\ CanFetch(Core, 1) /\ pmem[pc[2]] > ATP)
      => /\ status' = "halted"
         /\ pc' = AddU(pc, U(1))
         /\ UNCHANGED <<fr, r, pmem>>
         /\ ub' = ub ]_vars

(***************************************************************************)
(* C7.  Load validation: a file that cannot be opened, or has a short      *)
(* header, a wrong magic, a memsize other than 128 (0 included), a pc >=   *)
(* memsize or a short payload makes load fail as a reported load fault:    *)
(* no instruction is executed, no image is saved, the exit status is 1;    *)
(* with a wrong memsize nothing of the core is taken from the file.        *)
(***************************************************************************)
\* the diagnostics of load_image (the exhaustion of memory is one of them)
LoadFaults ==
  {"load:open", "load:header", "load:magic", "load:memsize", "load:nomem", "load:pc",
   "load:payload"}

WrongMemsize(f) ==
  f.kind = "data" /\ f.hlen = HDR_SIZE /\ f.magic = U(MAGIC) /\ f.memsize # U(MEM_SIZE)

Refusable(f) ==
  \/ f.kind = "missing"
  \/ /\ f.kind = "data"
     /\ \/ f.hlen < HDR_SIZE
        \/ f.magic # U(MAGIC)
        \/ f.memsize # U(MEM_SIZE)
        \/ ~LtU(f.pc, f.memsize)
        \/ Len(f.payload) < MEM_SIZE

C7_LoadValidation ==
  (status # "start" /\ Refusable(loadfile))
  => /\ status = "exited" /\ exitcode = 1 /\ report \in LoadFaults
     /\ steps = 0 /\ savefile = NoFile
     /\ WrongMemsize(loadfile) => (pc = U(0) /\ pmem = NullMem /\ pmemsize = U(0))

(***************************************************************************)
(* C8.  Every opcode that takes an addr operand stops with a fatal         *)
(* encoding fault when that operand byte is odd (a Literal); none goes on  *)
(* with the literal's value.                                               *)
(***************************************************************************)
\* operand bytes an opcode takes, and which of them (1 or 2) are addr
Arity(code) == IF code = SUS THEN 0 ELSE IF code \in {JMR, MPC} THEN 1 ELSE 2
AddrOperands(code) ==
  IF code \in {JMR, MPC} THEN {1} ELSE IF code = AT THEN {1, 2} ELSE IF code = SUS THEN {} ELSE {2}

C8_LiteralAddrFaults ==
  [][ \A code \in MOV..ATP :
        (Executes(code, Arity(code))
         /\ (\E k \in AddrOperands(code) : IsLiteral(pmem[pc[2] + k]))
         /\ (\A k \in 1..Arity(code) : Plain(pmem[pc[2] + k])))
        => status' = "aborted" ]_vars

(***************************************************************************)
(* C9.  In every reachable state each of the 8 registers holds a value in  *)
(* 0..255.                                                                 *)
(***************************************************************************)
C9_RegistersAreBytes == \A i \in 0..(NREGS - 1) : IsByte(r[i])

(***************************************************************************)
(* C10.  JUMP-IF-FALSE flag,addr: with the named flag clear the step ends  *)
(* with pc = read(addr), with the flag set it ends with pc at the next     *)
(* instruction; flags, registers and memory are unchanged.                 *)
(***************************************************************************)
C10_JumpIfFalse ==
  [][ (Executes(JIF, 2) /\ Opnd1 \in {FL_ZERO, FL_CARRY})
      => /\ pc' = IF isflag(fr, Opnd1) THEN AddU(pc, U(3)) ELSE SpecRead(Opnd2)
         /\ UNCHANGED <<fr, r, pmem>> ]_vars

\* the same for an addr operand that is a number, a register 0..7 or a
\* memory cell 16..127
JumpIfFalsePlain ==
  [][ (Executes(JIF, 2) /\ Opnd1 \in {FL_ZERO, FL_CARRY} /\ Plain(Opnd2))
      => /\ pc' = IF isflag(fr, Opnd1) THEN AddU(pc, U(3)) ELSE SpecRead(Opnd2)
         /\ UNCHANGED <<fr, r, pmem>> ]_vars

(***************************************************************************)
(* C11.  Operand codec: an odd byte decodes to Literal(byte >> 1), an even *)
(* byte to Reference(byte / 2); decode(encode_literal(n)) = Literal(n) for *)
(* n in 0..127; and encoding a value above 127 as a literal fails: no ADD, *)
(* SUB or MARK-PC step passes such a value through num_ without a fault.   *)
(***************************************************************************)
\* the value the handler of code hands to num_ in this step (operands
\* inside the arrays)
Encoded(code) ==
  LET c2 == Advance(Fetched, Arity(code))
  IN  IF code = ADD THEN AddU(obj_read(c2, U(Opnd2), Trap), obj_read(c2, U(Opnd1), Trap))
      ELSE IF code = SUB THEN SubU(obj_read(c2, U(Opnd2), Trap), obj_read(c2, U(Opnd1), Trap))
      ELSE c2.pc

C11_OperandCodec ==
  /\ \A n \in 0..127 :
       /\ isnum(num_(U(n))) /\ tonum(num_(U(n))) = U(n)
       /\ ~isnum(addr_(U(n))) /\ Half(addr_(U(n))) = U(n)
  /\ [][ \A code \in {ADD, SUB, MPC} :
           (Executes(code, Arity(code))
            /\ (\A k \in 1..Arity(code) : Plain(pmem[pc[2] + k]))
            /\ LtU(U(127), Encoded(code)))
           => status' = "aborted" ]_vars

(***************************************************************************)
(* C12.  Flags frame: every ADD and SUB step overwrites both ZERO and      *)
(* CARRY from its own result (a bit set earlier does not survive a result  *)
(* that does not set it); every other opcode leaves the flags unchanged;   *)
(* and no bit other than ZERO and CARRY is ever set.  The result is the    *)
(* one op_ADD/op_SUB compute, and the steps are those that stay inside the *)
(* arrays.                                                                 *)
(***************************************************************************)
\* the flag register with exactly these two bits
FlagWord(z, c) == U((IF z THEN FL_ZERO ELSE 0) + (IF c THEN FL_CARRY ELSE 0))

\* the flags an ADD or SUB at pc leaves, from its operands alone
OwnFlags(code) ==
  LET old == obj_read(Advance(Fetched, 2), U(Opnd2), Trap)
      new == Encoded(code)
  IN  FlagWord(new = U(0), IF code = ADD THEN LtU(new, old) ELSE LtU(old, new))

C12_FlagsFrame ==
  /\ [](fr \in {FlagWord(z, c) : z \in BOOLEAN, c \in BOOLEAN})
  /\ [][ \A code \in {ADD, SUB} :
           (Executes(code, 2) /\ Plain(Opnd1) /\ Plain(Opnd2))
           => fr' = OwnFlags(code) ]_vars
  /\ [][ (Running /\ ~Fetches(ADD) /\ ~Fetches(SUB) /\ status' # "undefined")
         => fr' = fr ]_vars

\* an ADD has cleared the ZERO flag that the SUB before it had set
C12_Witness ==
  /\ status = "running" /\ steps = 3 /\ pc = U(9)
  /\ pmem[3] = SUB /\ pmem[6] = ADD /\ pmem[7] = NumB(5) /\ pmem[8] = RegB(1)
  /\ r[1] = U(5) /\ fr = U(0)

(***************************************************************************)
(* C13.  The loop halts after a step iff the fetched opcode is SUSPEND or  *)
(* has no registered handler (absent an encoding fault); a SUSPEND step    *)
(* changes nothing but pc, which ends one byte behind the opcode; after    *)
(* any other registered opcode the machine remains running.                *)
(***************************************************************************)
\* the byte the loop is about to fetch, and whether a handler is registered
Icode == pmem[pc[2]]
Registered(b) == b \in SUS..ATP

\* the loop is about to execute a whole instruction whose operand bytes are
\* numbers, registers 0..7 or memory cells 16..127
ExecutesPlain ==
  /\ Running /\ CanFetch(Core, 1)
  /\ Registered(Icode) =>
       /\ CanFetch(Fetched, Arity(Icode))
       /\ \A k \in 1..Arity(Icode) : Plain(pmem[pc[2] + k])

\* what the claim says of a step that fetches one of bytes
HaltStep(bytes) ==
  (ExecutesPlain /\ Icode \in bytes /\ status' # "aborted")
  => /\ (status' = "halted") <=> (Icode = SUS \/ ~Registered(Icode))
     /\ Icode = SUS => (pc' = AddU(pc, U(1)) /\ UNCHANGED <<fr, r, pmem>>)
     /\ (Registered(Icode) /\ Icode # SUS) => status' = "running"

C13_HaltIff == [][HaltStep(0..255)]_vars

(***************************************************************************)
(* C14.  ADDRESS-OF-INDIRECT src,ref: with a = read(ref) and v = read(src) *)
(* before the step, after it the cell at index a holds v, for every index  *)
(* a that ref can yield; no other cell changes, the flags are unchanged    *)
(* and pc has advanced by 3.                                               *)
(***************************************************************************)
\* the cells of the machine: registers 0..7 and memory 8..127, by index
Cells == 0..(MEM_SIZE - 1)
CellNow(i) == IF i < NREGS THEN r[i] ELSE U(pmem[i])
CellNext(i) == IF i < NREGS THEN r'[i] ELSE U(pmem'[i])

\* v as cell i keeps it: a memory cell keeps one byte
Kept(i, v) == IF i < NREGS THEN v ELSE U(ToByte(v))

\* the step stores v in cell a and changes no other register or byte
StoresOnly(a, v) ==
  /\ Small(a) /\ a[2] \in Cells
  /\ CellNext(a[2]) = Kept(a[2], v)
  /\ \A i \in 0..(NREGS - 1) : i # a[2] => r'[i] = r[i]
  /\ \A i \in Cells : i # a[2] => pmem'[i] = pmem[i]

\* what the claim says of an ATP step whose ref yields one of indexes
IndirectStore(indexes) ==
  (Executes(ATP, 2) /\ Plain(Opnd1) /\ PlainRef(Opnd2)
   /\ (Small(SpecRead(Opnd2)) /\ SpecRead(Opnd2)[2] \in indexes))
  => /\ status' = "running"
     /\ StoresOnly(SpecRead(Opnd2), SpecRead(Opnd1))
     /\ fr' = fr
     /\ pc' = AddU(pc, U(3))

C14_IndirectStore == [][IndirectStore(0..255)]_vars

(***************************************************************************)
(* C15.  ADDRESS-OF ref,dst: with a = read(ref) before the step, after it  *)
(* dst holds the address encoding 2*a of the index a (not a literal, and   *)
(* not the contents of the cell at index a); nothing but dst and pc        *)
(* changes.  Stated for the indexes a of registers and of memory cells     *)
(* 16..127, and for such a dst.                                            *)
(***************************************************************************)
PlainIndexes == (0..(NREGS - 1)) \cup (16..(MEM_SIZE - 1))

\* an AT step whose ref yields a plain index
ExecutesAT ==
  /\ Executes(AT, 2) /\ PlainRef(Opnd1) /\ PlainRef(Opnd2)
  /\ Small(SpecRead(Opnd1)) /\ SpecRead(Opnd1)[2] \in PlainIndexes

C15_AddressOf ==
  [][ ExecutesAT
      => /\ status' = "running"
         /\ StoresOnly(U(RefIndex(Opnd2)), addr_(SpecRead(Opnd1)))
         /\ fr' = fr
         /\ pc' = AddU(pc, U(3)) ]_vars

\* what op_AT does there: dst receives the contents of the cell at index a
ATLoadsCell ==
  [][ ExecutesAT
      => /\ status' = "running"
         /\ StoresOnly(U(RefIndex(Opnd2)), CellNow(SpecRead(Opnd1)[2]))
         /\ fr' = fr
         /\ pc' = AddU(pc, U(3)) ]_vars

(***************************************************************************)
(* C16.  MARK-PC dst: for a MARK-PC opcode at any address p of memory,     *)
(* after the step dst holds the advanced program counter p + 2 and         *)
(* pc = p + 2; the flags and all cells other than dst are unchanged.       *)
(* Stated for a dst that is a register or a memory cell 16..127.           *)
(***************************************************************************)
\* what the claim says of a MARK-PC fetched at one of addresses
MarkPc(addresses) ==
  (Fetches(MPC) /\ pc[2] \in addresses
   /\ (CanFetch(Fetched, 1) => PlainRef(Opnd1)))
  => /\ CanFetch(Fetched, 1)
     /\ status' = "running"
     /\ StoresOnly(U(RefIndex(Opnd1)), AddU(pc, U(2)))
     /\ fr' = fr
     /\ pc' = AddU(pc, U(2))

C16_MarkPc == [][MarkPc(0..(MEM_SIZE - 1))]_vars

(***************************************************************************)
(* C17.  Operand arity and pc advance: each handler consumes a fixed       *)
(* number of operand bytes (SUS 0; JMR, MPC 1; the others 2) and advances  *)
(* pc past them before its effect; a step that takes no jump ends with     *)
(* pc = pc before + 1 + arity, also when the instruction overwrites its    *)
(* own operand bytes or stops on a failed assert.  Steps that leave the    *)
(* arrays are outside the statement.                                       *)
(***************************************************************************)
\* the step of code assigns pc from an operand
Jumps(code) == code = JMR \/ (code = JIF /\ ~isflag(fr, Opnd1))

C17_ArityAdvance ==
  [][ \A code \in SUS..ATP :
        (Executes(code, Arity(code)) /\ ~Jumps(code) /\ status' # "undefined")
        => pc' = AddU(pc, U(1 + Arity(code))) ]_vars

\* a MOV has overwritten its own second operand byte and pc is behind it
C17_Witness ==
  /\ status = "running" /\ steps = 1
  /\ pmem[MidBase] = MOV /\ pmem[MidBase + 1] = NumB(5) /\ pmem[MidBase + 2] = 5
  /\ pc = U(MidBase + 3)

(***************************************************************************)
(* C18.  The flag_mask operand of JUMP-IF-FALSE and the channel operand of *)
(* INPUT and OUTPUT are decoded like every other expr operand: the flag    *)
(* tested and the channel used are read(operand), not the raw byte.        *)
(***************************************************************************)
\* read(operand) of the first operand byte, as a flag mask or a channel
Selector == SpecRead(Opnd1)[2] % 256

\* end of file on a channel: getchar's EOF as IN stores it, and scanf's 0
EofValue(ch) == IF ch = IO_CHR THEN <<B15 - 1, B16 - 1>> ELSE U(0)

\* what the steps of JIF, OUT and IN do if sel(Opnd1) is the flag mask and
\* the channel
SelectorStep(sel(_)) ==
  /\ (Executes(JIF, 2) /\ Plain(Opnd2))
     => pc' = IF isflag(fr, sel(Opnd1)) THEN AddU(pc, U(3)) ELSE SpecRead(Opnd2)
  /\ (Executes(OUT, 2) /\ Plain(Opnd2))
     => out' = IF sel(Opnd1) = IO_NUM THEN <<"num", SpecRead(Opnd2)>>
               ELSE IF sel(Opnd1) = IO_CHR THEN <<"chr", SpecRead(Opnd2)[2] % 256>>
               ELSE out
  /\ (Executes(IN_, 2) /\ PlainRef(Opnd2))
     => /\ sel(Opnd1) \notin {IO_CHR, IO_NUM} => nin' = nin
        /\ nin' = nin
           => CellNext(RefIndex(Opnd2)) = Kept(RefIndex(Opnd2), EofValue(sel(Opnd1)))

Decoded(b) == Selector
Raw(b) == b

C18_DecodedSelectors == [][Plain(Opnd1) => SelectorStep(Decoded)]_vars

\* C18 as amended: the flag mask and the channel are the raw operand bytes
C18_RawSelectors == [][SelectorStep(Raw)]_vars

\* a JIF with the raw mask FL_ZERO (which decodes to Literal(0)) has found
\* ZERO set and has not jumped
C18_Witness ==
  /\ status = "running" /\ steps = 3 /\ pc = U(9)
  /\ pmem[3] = SUB /\ pmem[6] = JIF /\ pmem[7] = FL_ZERO
  /\ isflag(fr, FL_ZERO)

(***************************************************************************)
(* Runs of the built-in image on a given standard input: the numbers       *)
(* KSTART, KLEN, the KLEN bytes of a kernel, and the two numbers the warm  *)
(* boot reads before it jumps to the kernel.                               *)
(***************************************************************************)
\* kernels: one instruction for each way a kernel can go on or end
Kernels ==
  { <<SUS>>,
    <<JMR, NumB(48)>>,
    <<OUT, IO_NUM, RegB(2)>>,
    <<AT, RegB(1), RegB(0)>>,
    <<JMR, RegB(6)>>,
    <<11>>,
    <<255>>,
    <<MOV, NumB(1)>> }

\* where a kernel of length n is loaded: behind the boot code, and as far
\* up as the variables allow
KStarts(n) == {Len(BootCode), GREET - n}

GoodScripts ==
  { <<ks, Len(k)>> \o k \o ab :
      k \in Kernels, ks \in UNION {KStarts(Len(j)) : j \in Kernels},
      ab \in {<<3, 200>>, <<>>} }

\* inputs that are no KSTART, KLEN, kernel: nothing at all, a length of 0,
\* a start inside the boot code, a kernel that reaches the variables, a
\* kernel cut short, bytes that are none
OddScripts ==
  { <<>>, <<100, 0, 1, 2>>, <<10, 2, SUS, SUS, 3, 3>>, <<GREET - 1, 3, SUS, SUS, SUS, 3, 3>>,
    <<100, 3, SUS>>, <<100, 2, 300, -1, 3, 3>> }

BootScripts == {sc \in GoodScripts : sc[1] + sc[2] <= GREET} \cup OddScripts

InitBoot ==
  /\ FreshCore
  /\ loadfile = NoFile
  /\ stdin \in {Given(sc) : sc \in BootScripts}
  /\ savefile = NoFile
  /\ saved = NoSnapshot
  /\ run = 1

SpecBoot == InitBoot /\ [][Next]_vars

(***************************************************************************)
(* C19.  The built-in boot program.  Started from the compiled-in image at *)
(* pc = 0 with the numbers KSTART, KLEN, c_0 .. c_(KLEN-1) on standard     *)
(* input, where KLEN >= 1, 51 <= KSTART, KSTART + KLEN <= 120 and every    *)
(* c_i is a byte, the machine arrives at pc = 34 (warm boot), for the      *)
(* first time after 7 + 5 * KLEN instructions, having read exactly         *)
(* KLEN + 2 inputs, with memory[KSTART + i] = c_i, memory[124] = KSTART,   *)
(* memory[120] = 34 and every other byte as in the image; 5 instructions   *)
(* and two inputs later JUMP-REGISTER through memory[124] has set          *)
(* pc = KSTART.                                                            *)
(***************************************************************************)
KSTART == stdin.data[1]
KLEN   == stdin.data[2]
Kernel(i) == stdin.data[3 + i]

WellFormed ==
  /\ stdin.given /\ Len(stdin.data) >= 2
  /\ KLEN >= 1 /\ 51 <= KSTART /\ KSTART + KLEN <= 120
  /\ Len(stdin.data) >= KLEN + 2
  /\ \A i \in 0..(KLEN - 1) : Kernel(i) \in 0..255

\* memory as the cold boot leaves it
Booted ==
  [i \in 0..(MEM_SIZE - 1) |->
     IF i >= KSTART /\ i < KSTART + KLEN THEN Kernel(i - KSTART)
     ELSE IF i = 124 THEN KSTART
     ELSE IF i = 120 THEN 34
     ELSE MEM[i]]

\* instructions from pc = 0 to the first arrival at the warm boot, and on
\* to the kernel
ColdSteps == 7 + 5 * KLEN
WarmSteps == ColdSteps + 5

C19_Boot ==
  (WellFormed /\ loadfile = NoFile /\ run = 1 /\ status # "start") =>
    /\ steps < ColdSteps => (status = "running" /\ pc # U(34))
    /\ steps = ColdSteps =>
         /\ status = "running" /\ pc = U(34) /\ nin = KLEN + 2
         /\ pmem = Booted
    /\ (steps > ColdSteps /\ steps < WarmSteps) => (status = "running" /\ pmem = Booted)
    /\ (steps = WarmSteps /\ Len(stdin.data) >= KLEN + 4 /\ status = "running") =>
         (pc = U(KSTART) /\ nin = KLEN + 4 /\ pmem = Booted)

C19_Witness ==
  /\ WellFormed /\ loadfile = NoFile /\ run = 1
  /\ KLEN >= 2 /\ Len(stdin.data) >= KLEN + 4
  /\ status = "running" /\ steps = WarmSteps
  /\ pc = U(KSTART) /\ pmem[KSTART + 1] = Kernel(1) /\ pmem[124] = KSTART

(***************************************************************************)
(* C20.  Payload transfer under partial I/O: whatever positive chunk sizes *)
(* read and write return, a load that reports success leaves memory[i]     *)
(* equal to payload byte i of the file for every i in 0..127, and a save   *)
(* that reports no fault leaves a file of the 16-byte header followed by   *)
(* exactly the 128 bytes memory[0..127] in order; a write that takes only  *)
(* a part is reported as a save fault.                                     *)
(***************************************************************************)
\* load_image has just returned 0 for a file
Loaded == status = "running" /\ steps = 0 /\ loadfile.kind = "data"

\* save_image has just written a file
Written == status = "exited" /\ savefile.kind = "data"

LoadTransfers ==
  Loaded => \A i \in 0..(MEM_SIZE - 1) : pmem[i] = loadfile.payload[i + 1]

SaveTransfers ==
  (Written /\ report = "none")
  => (savefile.hlen = HDR_SIZE /\ savefile.payload = Bytes(saved.pmem))

C20_PartialTransfer == LoadTransfers /\ SaveTransfers

=============================================================================
